---- MODULE Spec2Model ----
(***************************************************************************)
(* Model of checksum.py: to_checksum_address (EIP-55 mixed-case checksum   *)
(* of a 40-hex-digit address) and the __main__ driver that formats a list  *)
(* of addresses.                                                           *)
(*                                                                         *)
(* A Python str is a sequence of one-character strings; a Python value is  *)
(* a record tagged with its type.  A call of to_checksum_address is a      *)
(* frame record that advances one statement at a time; RunCall runs a      *)
(* frame to its return or raise.                                           *)
(***************************************************************************)
EXTENDS Integers, Sequences, FiniteSets, TLC

VARIABLES call, main

vars == <<call, main>>

----------------------------------------------------------------------------
(* Characters and Python values                                            *)

Digits == <<"0", "1", "2", "3", "4", "5", "6", "7", "8", "9">>

LowerLetters ==
  <<"a", "b", "c", "d", "e", "f", "g", "h", "i", "j", "k", "l", "m",
    "n", "o", "p", "q", "r", "s", "t", "u", "v", "w", "x", "y", "z">>

UpperLetters ==
  <<"A", "B", "C", "D", "E", "F", "G", "H", "I", "J", "K", "L", "M",
    "N", "O", "P", "Q", "R", "S", "T", "U", "V", "W", "X", "Y", "Z">>

Range(s) == {s[k] : k \in 1..Len(s)}

IndexOf(s, c) == CHOOSE k \in 1..Len(s) : s[k] = c

\* the character class [0-9a-fA-F] of the pattern
HexClass ==
  Range(Digits) \cup Range(SubSeq(LowerLetters, 1, 6)) \cup Range(SubSeq(UpperLetters, 1, 6))

\* str.lower() and str.upper() on one character
LowerChar(c) == IF c \in Range(UpperLetters) THEN LowerLetters[IndexOf(UpperLetters, c)] ELSE c

UpperChar(c) == IF c \in Range(LowerLetters) THEN UpperLetters[IndexOf(LowerLetters, c)] ELSE c

Lower(s) == [k \in 1..Len(s) |-> LowerChar(s[k])]

Upper(s) == [k \in 1..Len(s) |-> UpperChar(s[k])]

\* str.encode('ascii') on one character: its code point
Ord(c) ==
  CASE c \in Range(Digits) -> 47 + IndexOf(Digits, c)
    [] c \in Range(UpperLetters) -> 64 + IndexOf(UpperLetters, c)
    [] c \in Range(LowerLetters) -> 96 + IndexOf(LowerLetters, c)
    [] c = " " -> 32
    [] c = "\n" -> 10

Encode(s) == [k \in 1..Len(s) |-> Ord(s[k])]

\* int(c, 16) on one hexadecimal character
HexValue(c) ==
  CASE c \in Range(Digits) -> IndexOf(Digits, c) - 1
    [] c \in Range(SubSeq(LowerLetters, 1, 6)) -> 9 + IndexOf(LowerLetters, c)
    [] c \in Range(SubSeq(UpperLetters, 1, 6)) -> 9 + IndexOf(UpperLetters, c)

\* bytes.hex() on one nibble
HexChar(n) == IF n < 10 THEN Digits[n + 1] ELSE LowerLetters[n - 9]

PyStr(s) == [type |-> "str", chars |-> s, num |-> 0]

PyInt(n) == [type |-> "int", chars |-> <<>>, num |-> n]

PyBytes(s) == [type |-> "bytes", chars |-> s, num |-> 0]

PyNone == [type |-> "NoneType", chars |-> <<>>, num |-> 0]

----------------------------------------------------------------------------
(* keccak: Keccak-256 (eth_hash), on a sequence of byte values.  The 1600  *)
(* bit state is kept as 400 nibbles, nibble n of lane (x, y) at index      *)
(* 16 * (x + 5y) + n, least significant nibble first.  Each layer is       *)
(* compared with itself so that it is built once before the next layer     *)
(* reads it.                                                               *)

XorTab ==
  << <<0, 1, 2, 3, 4, 5, 6, 7, 8, 9, 10, 11, 12, 13, 14, 15>>,
     <<1, 0, 3, 2, 5, 4, 7, 6, 9, 8, 11, 10, 13, 12, 15, 14>>,
     <<2, 3, 0, 1, 6, 7, 4, 5, 10, 11, 8, 9, 14, 15, 12, 13>>,
     <<3, 2, 1, 0, 7, 6, 5, 4, 11, 10, 9, 8, 15, 14, 13, 12>>,
     <<4, 5, 6, 7, 0, 1, 2, 3, 12, 13, 14, 15, 8, 9, 10, 11>>,
     <<5, 4, 7, 6, 1, 0, 3, 2, 13, 12, 15, 14, 9, 8, 11, 10>>,
     <<6, 7, 4, 5, 2, 3, 0, 1, 14, 15, 12, 13, 10, 11, 8, 9>>,
     <<7, 6, 5, 4, 3, 2, 1, 0, 15, 14, 13, 12, 11, 10, 9, 8>>,
     <<8, 9, 10, 11, 12, 13, 14, 15, 0, 1, 2, 3, 4, 5, 6, 7>>,
     <<9, 8, 11, 10, 13, 12, 15, 14, 1, 0, 3, 2, 5, 4, 7, 6>>,
     <<10, 11, 8, 9, 14, 15, 12, 13, 2, 3, 0, 1, 6, 7, 4, 5>>,
     <<11, 10, 9, 8, 15, 14, 13, 12, 3, 2, 1, 0, 7, 6, 5, 4>>,
     <<12, 13, 14, 15, 8, 9, 10, 11, 4, 5, 6, 7, 0, 1, 2, 3>>,
     <<13, 12, 15, 14, 9, 8, 11, 10, 5, 4, 7, 6, 1, 0, 3, 2>>,
     <<14, 15, 12, 13, 10, 11, 8, 9, 6, 7, 4, 5, 2, 3, 0, 1>>,
     <<15, 14, 13, 12, 11, 10, 9, 8, 7, 6, 5, 4, 3, 2, 1, 0>> >>

AndTab ==
  << <<0, 0, 0, 0, 0, 0, 0, 0, 0, 0, 0, 0, 0, 0, 0, 0>>,
     <<0, 1, 0, 1, 0, 1, 0, 1, 0, 1, 0, 1, 0, 1, 0, 1>>,
     <<0, 0, 2, 2, 0, 0, 2, 2, 0, 0, 2, 2, 0, 0, 2, 2>>,
     <<0, 1, 2, 3, 0, 1, 2, 3, 0, 1, 2, 3, 0, 1, 2, 3>>,
     <<0, 0, 0, 0, 4, 4, 4, 4, 0, 0, 0, 0, 4, 4, 4, 4>>,
     <<0, 1, 0, 1, 4, 5, 4, 5, 0, 1, 0, 1, 4, 5, 4, 5>>,
     <<0, 0, 2, 2, 4, 4, 6, 6, 0, 0, 2, 2, 4, 4, 6, 6>>,
     <<0, 1, 2, 3, 4, 5, 6, 7, 0, 1, 2, 3, 4, 5, 6, 7>>,
     <<0, 0, 0, 0, 0, 0, 0, 0, 8, 8, 8, 8, 8, 8, 8, 8>>,
     <<0, 1, 0, 1, 0, 1, 0, 1, 8, 9, 8, 9, 8, 9, 8, 9>>,
     <<0, 0, 2, 2, 0, 0, 2, 2, 8, 8, 10, 10, 8, 8, 10, 10>>,
     <<0, 1, 2, 3, 0, 1, 2, 3, 8, 9, 10, 11, 8, 9, 10, 11>>,
     <<0, 0, 0, 0, 4, 4, 4, 4, 8, 8, 8, 8, 12, 12, 12, 12>>,
     <<0, 1, 0, 1, 4, 5, 4, 5, 8, 9, 8, 9, 12, 13, 12, 13>>,
     <<0, 0, 2, 2, 4, 4, 6, 6, 8, 8, 10, 10, 12, 12, 14, 14>>,
     <<0, 1, 2, 3, 4, 5, 6, 7, 8, 9, 10, 11, 12, 13, 14, 15>> >>

RoundConstants ==
  << <<1, 0, 0, 0, 0, 0, 0, 0, 0, 0, 0, 0, 0, 0, 0, 0>>,
     <<2, 8, 0, 8, 0, 0, 0, 0, 0, 0, 0, 0, 0, 0, 0, 0>>,
     <<10, 8, 0, 8, 0, 0, 0, 0, 0, 0, 0, 0, 0, 0, 0, 8>>,
     <<0, 0, 0, 8, 0, 0, 0, 8, 0, 0, 0, 0, 0, 0, 0, 8>>,
     <<11, 8, 0, 8, 0, 0, 0, 0, 0, 0, 0, 0, 0, 0, 0, 0>>,
     <<1, 0, 0, 0, 0, 0, 0, 8, 0, 0, 0, 0, 0, 0, 0, 0>>,
     <<1, 8, 0, 8, 0, 0, 0, 8, 0, 0, 0, 0, 0, 0, 0, 8>>,
     <<9, 0, 0, 8, 0, 0, 0, 0, 0, 0, 0, 0, 0, 0, 0, 8>>,
     <<10, 8, 0, 0, 0, 0, 0, 0, 0, 0, 0, 0, 0, 0, 0, 0>>,
     <<8, 8, 0, 0, 0, 0, 0, 0, 0, 0, 0, 0, 0, 0, 0, 0>>,
     <<9, 0, 0, 8, 0, 0, 0, 8, 0, 0, 0, 0, 0, 0, 0, 0>>,
     <<10, 0, 0, 0, 0, 0, 0, 8, 0, 0, 0, 0, 0, 0, 0, 0>>,
     <<11, 8, 0, 8, 0, 0, 0, 8, 0, 0, 0, 0, 0, 0, 0, 0>>,
     <<11, 8, 0, 0, 0, 0, 0, 0, 0, 0, 0, 0, 0, 0, 0, 8>>,
     <<9, 8, 0, 8, 0, 0, 0, 0, 0, 0, 0, 0, 0, 0, 0, 8>>,
     <<3, 0, 0, 8, 0, 0, 0, 0, 0, 0, 0, 0, 0, 0, 0, 8>>,
     <<2, 0, 0, 8, 0, 0, 0, 0, 0, 0, 0, 0, 0, 0, 0, 8>>,
     <<0, 8, 0, 0, 0, 0, 0, 0, 0, 0, 0, 0, 0, 0, 0, 8>>,
     <<10, 0, 0, 8, 0, 0, 0, 0, 0, 0, 0, 0, 0, 0, 0, 0>>,
     <<10, 0, 0, 0, 0, 0, 0, 8, 0, 0, 0, 0, 0, 0, 0, 8>>,
     <<1, 8, 0, 8, 0, 0, 0, 8, 0, 0, 0, 0, 0, 0, 0, 8>>,
     <<0, 8, 0, 8, 0, 0, 0, 0, 0, 0, 0, 0, 0, 0, 0, 8>>,
     <<1, 0, 0, 0, 0, 0, 0, 8, 0, 0, 0, 0, 0, 0, 0, 0>>,
     <<8, 0, 0, 8, 0, 0, 0, 8, 0, 0, 0, 0, 0, 0, 0, 8>> >>

RotationOffsets ==
  <<0, 1, 62, 28, 27, 36, 44, 6, 55, 20, 3, 10, 43, 25, 39, 41, 45, 15, 21, 8, 18, 2, 61, 56, 14>>

XorN(a, b) == XorTab[a + 1][b + 1]
AndN(a, b) == AndTab[a + 1][b + 1]
Pow2(s) == CASE s = 0 -> 1 [] s = 1 -> 2 [] s = 2 -> 4 [] s = 3 -> 8 [] s = 4 -> 16

Eager(f) == IF f = f THEN f ELSE f

Theta(A) ==
  LET C == Eager([j \in 0..79 |->
              XorN(XorN(XorN(XorN(A[j], A[j + 80]), A[j + 160]), A[j + 240]), A[j + 320])])
      Rol1(x, n) == ((C[16 * x + n] * 2) % 16) + (C[16 * x + ((n + 15) % 16)] \div 8)
      D == Eager([j \in 0..79 |-> LET x == j \div 16  n == j % 16 IN
              XorN(C[16 * ((x + 4) % 5) + n], Rol1((x + 1) % 5, n))])
  IN  Eager([i \in 0..399 |-> XorN(A[i], D[16 * ((i \div 16) % 5) + (i % 16)])])

RhoPi(A) ==
  Eager([i \in 0..399 |->
     LET X == (i \div 16) % 5
         Y == (i \div 16) \div 5
         n == i % 16
         x == (X + 3 * Y) % 5
         y == X
         r == RotationOffsets[x + 5 * y + 1]
         q == r \div 4
         s == r % 4
         base == 16 * (x + 5 * y)
     IN  ((A[base + ((n - q) % 16)] * Pow2(s)) % 16)
           + (A[base + ((n - q - 1) % 16)] \div Pow2(4 - s))])

Chi(B) ==
  Eager([i \in 0..399 |->
     LET x == (i \div 16) % 5
         y == (i \div 16) \div 5
         n == i % 16
     IN  XorN(B[i], AndN(15 - B[16 * (((x + 1) % 5) + 5 * y) + n],
                         B[16 * (((x + 2) % 5) + 5 * y) + n]))])

Iota(A, r) == Eager([i \in 0..399 |-> IF i < 16 THEN XorN(A[i], RoundConstants[r + 1][i + 1]) ELSE A[i]])

RECURSIVE KeccakF(_, _)
KeccakF(A, r) ==
  IF r = 24 THEN A
  ELSE LET B == Iota(Chi(RhoPi(Theta(A))), r)
       IN  IF B = B THEN KeccakF(B, r + 1) ELSE B

RateBytes == 136

\* pad10*1 with the Keccak domain byte 0x01
Pad(msg) ==
  LET padLen == RateBytes - (Len(msg) % RateBytes)
  IN  msg \o [k \in 1..padLen |->
                 (IF k = 1 THEN 1 ELSE 0) + (IF k = padLen THEN 128 ELSE 0)]

RECURSIVE Absorb(_, _)
Absorb(A, p) ==
  IF Len(p) = 0 THEN A
  ELSE LET mixed == Eager([i \in 0..399 |->
                      IF i < 2 * RateBytes
                      THEN LET b == p[(i \div 2) + 1] IN
                           XorN(A[i], IF i % 2 = 0 THEN b % 16 ELSE b \div 16)
                      ELSE A[i]])
       IN Absorb(KeccakF(mixed, 0), SubSeq(p, RateBytes + 1, Len(p)))

\* the first 32 bytes of the state after absorbing the padded message
Keccak256(msg) ==
  LET A == Absorb([i \in 0..399 |-> 0], Pad(msg))
  IN  Eager([j \in 1..32 |-> A[2 * (j - 1)] + 16 * A[2 * (j - 1) + 1]])

\* bytes.hex(): two lowercase hexadecimal characters per byte, high nibble first
Hex(digest) ==
  Eager([k \in 1..(2 * Len(digest)) |->
     IF k % 2 = 1 THEN HexChar(digest[(k + 1) \div 2] \div 16)
                  ELSE HexChar(digest[k \div 2] % 16)])

----------------------------------------------------------------------------
(* Arguments of the calls that are explored                                *)

Demo1 ==
  <<"3", "7", "D", "9", "d", "C", "7", "0", "C", "3", "3", "0", "2", "9", "9", "6", "7", "d", "6", "1",
    "6", "b", "8", "0", "5", "4", "7", "4", "f", "5", "6", "0", "E", "8", "9", "1", "D", "1">>

Demo2 ==
  <<"6", "9", "6", "f", "b", "0", "d", "7", "0", "d", "4", "e", "6", "4", "a", "F", "8", "0", "1", "4",
    "7", "0", "5", "F", "0", "0", "0", "3", "9", "2", "5", "5", "c", "5", "5", "c", "b", "9", "a", "a">>

Demo3 ==
  <<"4", "7", "F", "b", "2", "5", "8", "5", "D", "2", "C", "5", "6", "F", "e", "1", "8", "8", "D", "0",
    "E", "6", "e", "c", "6", "2", "8", "a", "3", "8", "B", "7", "4", "f", "C", "e", "e", "e", "D", "f">>

\* the address body of the known vector
Known ==
  <<"5", "a", "A", "e", "b", "6", "0", "5", "3", "F", "3", "E", "9", "4", "C", "9", "b", "9", "A", "0",
    "9", "f", "3", "3", "6", "6", "9", "4", "3", "5", "E", "7", "E", "f", "1", "B", "e", "A", "e", "d">>

Prefix == <<"0", "x">>

\* the list of the driver
DemoAddresses == <<PyStr(Prefix \o Demo1), PyStr(Prefix \o Demo2), PyStr(Prefix \o Demo3)>>

\* number of generated address bodies
NumSeeds == 2

\* longest generated list of the driver
MaxList == 2

HexAlphabet == Digits \o SubSeq(LowerLetters, 1, 6) \o SubSeq(UpperLetters, 1, 6)

\* a 40-character body of mixed-case hexadecimal characters, one per seed
Body(seed) ==
  [j \in 1..40 |-> HexAlphabet[((7 * seed + j * (seed + 2) + (j * j) \div (seed + 1)) % 22) + 1]]

Bodies == {Demo2, Demo3, Known} \cup {Body(seed) : seed \in 1..NumSeeds}

Replace(s, p, c) == [k \in 1..Len(s) |-> IF k = p THEN c ELSE s[k]]

\* accepted spellings of a body
Spellings(b) ==
  {b, Lower(b), Upper(b), Prefix \o b, Prefix \o Lower(b), Prefix \o Upper(b)}

\* strings around a body that the pattern or the prefix test reject
Malformed(b) ==
  {<<"0", "X">> \o b, Prefix \o Prefix \o b, b \o <<"\n">>, b \o <<" ">>, <<" ">> \o b,
   SubSeq(b, 1, 39), b \o <<"0">>, Prefix \o SubSeq(b, 1, 39), Prefix \o b \o <<"f">>,
   Prefix \o SubSeq(b, 1, 38), <<"0", "X">> \o Upper(b), Prefix \o Prefix \o Lower(b),
   Prefix \o b \o <<"\n">>}
  \cup {Replace(b, p, c) : p \in {1, 20, 40}, c \in {"g", "G", "x", " "}}
  \cup {Prefix \o Replace(b, p, c) : p \in {1, 40}, c \in {"g", "X"}}

Strings ==
  UNION {Spellings(b) \cup Malformed(b) : b \in Bodies}
  \cup {<<>>, Prefix, Prefix \o <<"1", "2", "3", "4", "5">>, Prefix \o Demo1, Demo1}

NonStrings == {PyInt(0), PyInt(12345), PyNone, PyBytes(Known), PyBytes(Prefix \o Known)}

Inputs == {PyStr(s) : s \in Strings} \cup NonStrings

\* the digests of the messages that accepted calls hash, each computed once
Digests == Eager([msg \in {Encode(Lower(b)) : b \in Bodies} |-> Keccak256(msg)])

\* keccak(data) of eth_hash
keccak(msg) == IF msg \in DOMAIN Digests THEN Digests[msg] ELSE Keccak256(msg)

----------------------------------------------------------------------------
(* to_checksum_address: one frame per call.  pc names the statement about  *)
(* to run; arg keeps the value the call was given; steps lists the         *)
(* statements the call has run, in order.                                  *)

NewCall(v) ==
  [pc |-> "isinstance", arg |-> v, address |-> v, address_lower |-> <<>>,
   address_hash |-> <<>>, checksummed_address |-> <<>>, i |-> 0,
   stdout |-> <<>>, steps |-> <<>>, exc |-> "", msg |-> "", ret |-> <<>>]

\* one printed line
Line(kind, address, text, msg, length) ==
  [kind |-> kind, address |-> address, text |-> text, msg |-> msg, length |-> length]

TypeErrorMessage == "Address must be a string."

ValueErrorMessage == "Invalid Ethereum address format. Must be 40 hexadecimal characters."

\* CheckType without the isinstance test
CheckTypeMissing(f) == [f EXCEPT !.pc = "startswith", !.steps = Append(@, "isinstance")]

\* if not isinstance(address, str): raise TypeError(...)
CheckType(f) ==
  IF f.address.type # "str"
  THEN [f EXCEPT !.pc = "raised", !.exc = "TypeError", !.msg = TypeErrorMessage,
                 !.steps = Append(@, "isinstance")]
  ELSE [f EXCEPT !.pc = "startswith", !.steps = Append(@, "isinstance")]

StartsWith(s, prefix) == Len(s) >= Len(prefix) /\ SubSeq(s, 1, Len(prefix)) = prefix

\* StripPrefix that never strips
StripPrefixNever(f) == [f EXCEPT !.pc = "print", !.steps = Append(@, "startswith")]

\* StripPrefix that tests the prefix without regard to case
StripPrefixAnyCase(f) ==
  IF StartsWith(Lower(f.address.chars), <<"0", "x">>)
  THEN [f EXCEPT !.pc = "print", !.steps = Append(@, "startswith"),
                 !.address = PyStr(SubSeq(f.address.chars, 3, Len(f.address.chars)))]
  ELSE [f EXCEPT !.pc = "print", !.steps = Append(@, "startswith")]

\* if address.startswith('0x'): address = address[2:]
StripPrefix(f) ==
  IF StartsWith(f.address.chars, <<"0", "x">>)
  THEN [f EXCEPT !.pc = "print", !.steps = Append(@, "startswith"),
                 !.address = PyStr(SubSeq(f.address.chars, 3, Len(f.address.chars)))]
  ELSE [f EXCEPT !.pc = "print", !.steps = Append(@, "startswith")]

\* print(f'Address: {address}, Length: {len(address)}')
PrintDiag(f) ==
  [f EXCEPT !.pc = "fullmatch", !.steps = Append(@, "print"),
            !.stdout = Append(@, Line("Address", f.address, <<>>, "", Len(f.address.chars)))]

\* re.match(r'[0-9a-fA-F]{40}$', s): $ also matches before a trailing newline
FullMatchDollar(s) ==
  /\ Len(s) \in {40, 41}
  /\ \A k \in 1..40 : s[k] \in HexClass
  /\ Len(s) = 41 => s[41] = "\n"

\* re.fullmatch(r'[0-9a-fA-F]{40}', s)
FullMatch(s) == Len(s) = 40 /\ \A k \in 1..Len(s) : s[k] \in HexClass

\* Validate that hashes the lowercased address before it tests the pattern
ValidateAfterHash(f) ==
  LET hashed == [f EXCEPT !.steps = Append(Append(@, "keccak"), "fullmatch"),
                          !.address_hash = Hex(keccak(Encode(Lower(f.address.chars))))]
  IN  IF ~FullMatch(f.address.chars)
      THEN [hashed EXCEPT !.pc = "raised", !.exc = "ValueError", !.msg = ValueErrorMessage]
      ELSE [hashed EXCEPT !.pc = "lower"]

\* if not re.fullmatch(...): raise ValueError(...)
Validate(f) ==
  IF ~FullMatch(f.address.chars)
  THEN [f EXCEPT !.pc = "raised", !.exc = "ValueError", !.msg = ValueErrorMessage,
                 !.steps = Append(@, "fullmatch")]
  ELSE [f EXCEPT !.pc = "lower", !.steps = Append(@, "fullmatch")]

\* LowerCase that keeps the case of the address
LowerCaseSkipped(f) ==
  [f EXCEPT !.pc = "keccak", !.steps = Append(@, "lower"),
            !.address_lower = f.address.chars]

\* address_lower = address.lower()
LowerCase(f) ==
  [f EXCEPT !.pc = "keccak", !.steps = Append(@, "lower"),
            !.address_lower = Lower(f.address.chars)]

\* Hash over the address as given instead of address_lower
HashOriginalCase(f) ==
  [f EXCEPT !.pc = "init", !.steps = Append(@, "keccak"),
            !.address_hash = Hex(keccak(Encode(f.address.chars)))]

\* address_hash = keccak(address_lower.encode('ascii')).hex()
Hash(f) ==
  [f EXCEPT !.pc = "init", !.steps = Append(@, "keccak"),
            !.address_hash = Hex(keccak(Encode(f.address_lower)))]

\* checksummed_address = "0x"
InitResult(f) ==
  [f EXCEPT !.pc = "for", !.steps = Append(@, "init"),
            !.checksummed_address = <<"0", "x">>, !.i = 0]

\* LoopIter with > 8 for >= 8
LoopIterStrict(f) ==
  LET char == f.address_lower[f.i + 1]
  IN  [f EXCEPT !.i = f.i + 1,
                !.checksummed_address =
                   IF HexValue(f.address_hash[f.i + 1]) > 8
                   THEN Append(@, UpperChar(char))
                   ELSE Append(@, char)]

\* LoopIter that emits the character of the hash for the character of the address
LoopIterHashChar(f) ==
  LET char == f.address_hash[f.i + 1]
  IN  [f EXCEPT !.i = f.i + 1,
                !.checksummed_address =
                   IF HexValue(f.address_hash[f.i + 1]) >= 8
                   THEN Append(@, UpperChar(char))
                   ELSE Append(@, char)]

\* one iteration of: for i, char in enumerate(address_lower)
LoopIter(f) ==
  LET char == f.address_lower[f.i + 1]
  IN  [f EXCEPT !.i = f.i + 1,
                !.checksummed_address =
                   IF HexValue(f.address_hash[f.i + 1]) >= 8
                   THEN Append(@, UpperChar(char))
                   ELSE Append(@, char)]

LoopDone(f) == f.i >= Len(f.address_lower)

\* the loop is exhausted
LoopExit(f) == [f EXCEPT !.pc = "return", !.steps = Append(@, "for")]

\* return checksummed_address
Return(f) ==
  [f EXCEPT !.pc = "returned", !.steps = Append(@, "return"),
            !.ret = f.checksummed_address]

Finished(f) == f.pc \in {"returned", "raised"}

\* the statement at f.pc
Step(f) ==
  CASE f.pc = "isinstance" -> CheckType(f)
    [] f.pc = "startswith" -> StripPrefix(f)
    [] f.pc = "print" -> PrintDiag(f)
    [] f.pc = "fullmatch" -> Validate(f)
    [] f.pc = "lower" -> LowerCase(f)
    [] f.pc = "keccak" -> Hash(f)
    [] f.pc = "init" -> InitResult(f)
    [] f.pc = "for" -> IF LoopDone(f) THEN LoopExit(f) ELSE LoopIter(f)
    [] f.pc = "return" -> Return(f)

RECURSIVE RunCall(_)
RunCall(f) == IF Finished(f) THEN f ELSE RunCall(Step(f))

\* the whole call, from its argument to its return or raise
to_checksum_address(v) == RunCall(NewCall(v))

----------------------------------------------------------------------------
(* Spec: one call of to_checksum_address, statement by statement           *)

NoMain ==
  [pc |-> "imported", addresses |-> <<>>, pos |-> 0, address |-> PyNone,
   checksum_address |-> <<>>, e |-> "", stdout |-> <<>>]

Init == main = NoMain /\ \E v \in Inputs : call = NewCall(v)

\* the call is running, from an importing caller or from the driver, and is at label
At(label) == main.pc \in {"imported", "call"} /\ call.pc = label

ExecCheckType == At("isinstance") /\ call' = CheckType(call) /\ UNCHANGED main

ExecStripPrefix == At("startswith") /\ call' = StripPrefix(call) /\ UNCHANGED main

ExecPrintDiag == At("print") /\ call' = PrintDiag(call) /\ UNCHANGED main

ExecValidate == At("fullmatch") /\ call' = Validate(call) /\ UNCHANGED main

ExecLowerCase == At("lower") /\ call' = LowerCase(call) /\ UNCHANGED main

ExecHash == At("keccak") /\ call' = Hash(call) /\ UNCHANGED main

ExecInitResult == At("init") /\ call' = InitResult(call) /\ UNCHANGED main

ExecLoopIter == At("for") /\ ~LoopDone(call) /\ call' = LoopIter(call) /\ UNCHANGED main

ExecLoopExit == At("for") /\ LoopDone(call) /\ call' = LoopExit(call) /\ UNCHANGED main

ExecReturn == At("return") /\ call' = Return(call) /\ UNCHANGED main

Next ==
  \/ ExecCheckType
  \/ ExecStripPrefix
  \/ ExecPrintDiag
  \/ ExecValidate
  \/ ExecLowerCase
  \/ ExecHash
  \/ ExecInitResult
  \/ ExecLoopIter
  \/ ExecLoopExit
  \/ ExecReturn

Spec == Init /\ [][Next]_vars

----------------------------------------------------------------------------
(* DriverSpec: the __main__ block.  The call of the try block runs in the  *)
(* frame call, statement by statement, and the driver resumes at its end.  *)

DriverInputs == Range(DemoAddresses) \cup {PyInt(12345)}

Lists == {DemoAddresses} \cup UNION {[1..n -> DriverInputs] : n \in 0..MaxList}

NoCall == [NewCall(PyNone) EXCEPT !.pc = "none"]

DriverInit ==
  /\ call = NoCall
  /\ \E l \in Lists :
        main = [pc |-> "for", addresses |-> l, pos |-> 0, address |-> PyNone,
                checksum_address |-> <<>>, e |-> "", stdout |-> <<>>]

\* for address in addresses: the next element
ForNext ==
  /\ main.pc = "for"
  /\ main.pos < Len(main.addresses)
  /\ main' = [main EXCEPT !.pc = "try", !.pos = @ + 1, !.address = main.addresses[main.pos + 1]]
  /\ UNCHANGED call

\* the list is exhausted
ForExit ==
  /\ main.pc = "for"
  /\ main.pos >= Len(main.addresses)
  /\ main' = [main EXCEPT !.pc = "done"]
  /\ UNCHANGED call

\* AfterCall of a driver with no handler for TypeError
AfterCallNoTypeError(m, r) ==
  [m EXCEPT
     !.stdout = @ \o r.stdout,
     !.checksum_address = IF r.pc = "returned" THEN r.ret ELSE @,
     !.e = IF r.pc = "raised" THEN r.msg ELSE @,
     !.pc = CASE r.pc = "returned" -> "print"
              [] r.pc = "raised" /\ r.exc = "ValueError" -> "except ValueError"
              [] OTHER -> "traceback"]

\* the driver after the call of the try block ended as frame r: the result
\* is assigned, or the exception goes to its handler
AfterCall(m, r) ==
  [m EXCEPT
     !.stdout = @ \o r.stdout,
     !.checksum_address = IF r.pc = "returned" THEN r.ret ELSE @,
     !.e = IF r.pc = "raised" THEN r.msg ELSE @,
     !.pc = CASE r.pc = "returned" -> "print"
              [] r.pc = "raised" /\ r.exc = "ValueError" -> "except ValueError"
              [] r.pc = "raised" /\ r.exc = "TypeError" -> "except TypeError"
              [] OTHER -> "traceback"]

\* try: to_checksum_address(address) is entered
TryCall ==
  /\ main.pc = "try"
  /\ call' = NewCall(main.address)
  /\ main' = [main EXCEPT !.pc = "call"]

\* the call has returned or raised: checksum_address = ..., or except
EndCall ==
  /\ main.pc = "call"
  /\ Finished(call)
  /\ main' = AfterCall(main, call)
  /\ UNCHANGED call

\* print(f'{address},{checksum_address}')
PrintResult ==
  /\ main.pc = "print"
  /\ main' = [main EXCEPT !.pc = "for",
                !.stdout = Append(@, Line("result", main.address, main.checksum_address, "", 0))]
  /\ UNCHANGED call

\* except ValueError as e: print(f"Error: {e}")
ExceptValueError ==
  /\ main.pc = "except ValueError"
  /\ main' = [main EXCEPT !.pc = "for",
                !.stdout = Append(@, Line("Error", PyNone, <<>>, main.e, 0))]
  /\ UNCHANGED call

\* except TypeError as e: print(f"Error: {e}")
ExceptTypeError ==
  /\ main.pc = "except TypeError"
  /\ main' = [main EXCEPT !.pc = "for",
                !.stdout = Append(@, Line("Error", PyNone, <<>>, main.e, 0))]
  /\ UNCHANGED call

DriverNext ==
  \/ ForNext
  \/ ForExit
  \/ TryCall
  \/ Next
  \/ EndCall
  \/ PrintResult
  \/ ExceptValueError
  \/ ExceptTypeError

\* the driver is one sequential thread: it runs its next statement while one is left
DriverSpec == DriverInit /\ [][DriverNext]_vars /\ WF_vars(DriverNext)

----------------------------------------------------------------------------
(* The claims.  The terms of the claims are stated here on their own:      *)
(* the body of an input, the hexadecimal alphabet, the value of a nibble.  *)

ClaimHexChars ==
  {"0", "1", "2", "3", "4", "5", "6", "7", "8", "9",
   "a", "b", "c", "d", "e", "f", "A", "B", "C", "D", "E", "F"}

ClaimLetters == {"a", "b", "c", "d", "e", "f"}

\* the input after removing one optional leading "0x"
ClaimBody(s) ==
  IF Len(s) >= 2 /\ s[1] = "0" /\ s[2] = "x" THEN SubSeq(s, 3, Len(s)) ELSE s

\* exactly 40 characters, each in [0-9a-fA-F]
ClaimValidBody(s) == Len(s) = 40 /\ \A k \in 1..Len(s) : s[k] \in ClaimHexChars

ClaimAccepted(v) == v.type = "str" /\ ClaimValidBody(ClaimBody(v.chars))

ClaimNibble(c) ==
  CASE c = "0" -> 0 [] c = "1" -> 1 [] c = "2" -> 2 [] c = "3" -> 3
    [] c = "4" -> 4 [] c = "5" -> 5 [] c = "6" -> 6 [] c = "7" -> 7
    [] c = "8" -> 8 [] c = "9" -> 9 [] c = "a" -> 10 [] c = "b" -> 11
    [] c = "c" -> 12 [] c = "d" -> 13 [] c = "e" -> 14 [] c = "f" -> 15

Returned(f) == f.pc = "returned"

RaisedWith(f, e) == f.pc = "raised" /\ f.exc = e /\ f.ret = <<>>

\* C1: a call on a string returns a result if and only if the input, after
\* removing one optional leading "0x", is exactly 40 characters of
\* [0-9a-fA-F]; in every other case it fails with ValueError (InvalidFormat),
\* carrying the message that names the constraint, and returns nothing.
C1_AcceptedIffValidBody ==
  Finished(call) /\ call.arg.type = "str" =>
    /\ Returned(call) <=> ClaimAccepted(call.arg)
    /\ Returned(call) => Len(call.ret) > 0
    /\ ~ClaimAccepted(call.arg) =>
          RaisedWith(call, "ValueError") /\ call.msg = ValueErrorMessage

\* a body of 40 hexadecimal characters and a trailing newline was rejected
C1_Witness ==
  /\ RaisedWith(call, "ValueError")
  /\ call.arg.type = "str"
  /\ Len(call.arg.chars) = 41
  /\ call.arg.chars[41] = "\n"
  /\ ClaimValidBody(SubSeq(call.arg.chars, 1, 40))

\* C2: a call on a value that is not a string fails with TypeError
\* (InvalidInputType), and the type test is the first step of the call:
\* nothing was stripped, printed, validated or hashed before the error.
C2_NonStringTypeErrorFirst ==
  call.arg.type # "str" /\ call.pc # "none" =>
    /\ call.pc \in {"isinstance", "raised"}
    /\ call.address = call.arg
    /\ call.stdout = <<>>
    /\ call.address_lower = <<>>
    /\ call.address_hash = <<>>
    /\ call.checksummed_address = <<>>
    /\ Finished(call) =>
          /\ RaisedWith(call, "TypeError")
          /\ call.msg = TypeErrorMessage
          /\ call.steps = <<"isinstance">>

\* the call on the integer 12345 has ended
C2_Witness == Finished(call) /\ call.arg = PyInt(12345) /\ call.exc = "TypeError"

\* C3: for every position i in 0..39 of an accepted input, output character
\* 2+i is the uppercase form of the lowercased body character i when the
\* nibble of the digest's i-th hexadecimal character is >= 8 and the
\* lowercased body character itself when it is < 8; the digest has 64
\* nibbles of which the first 40 are read; decimal digits come out the same
\* in both branches.  Stated of every character the loop has emitted so far.
C3_CasePerNibble ==
  call.pc \in {"for", "return", "returned"} =>
    LET body == Lower(ClaimBody(call.arg.chars))
        out == call.checksummed_address
    IN  /\ Len(call.address_hash) = 64
        /\ Len(out) = 2 + call.i
        /\ call.i <= 40
        /\ call.pc # "for" => call.i = 40
        /\ \A i \in 0..(call.i - 1) :
              /\ ClaimNibble(call.address_hash[i + 1]) >= 8 => out[3 + i] = UpperChar(body[i + 1])
              /\ ClaimNibble(call.address_hash[i + 1]) < 8 => out[3 + i] = body[i + 1]
              /\ body[i + 1] \notin ClaimLetters => out[3 + i] = body[i + 1]
        /\ Returned(call) => call.ret = out

\* a result with a letter raised at a nibble of exactly 8, a letter kept
\* lowercase, and a decimal digit at a nibble >= 8
C3_Witness ==
  /\ Returned(call)
  /\ \E i \in 1..40 :
        /\ ClaimNibble(call.address_hash[i]) = 8
        /\ call.ret[2 + i] \in {"A", "B", "C", "D", "E", "F"}
  /\ \E i \in 1..40 :
        /\ ClaimNibble(call.address_hash[i]) < 8
        /\ call.ret[2 + i] \in ClaimLetters
  /\ \E i \in 1..40 :
        /\ ClaimNibble(call.address_hash[i]) >= 8
        /\ call.ret[2 + i] \in Range(Digits)

\* C4: for every accepted input with body B the result, with all letters
\* lowercased, is "0x" followed by lowercase(B); so it starts with lowercase
\* "0x", is 42 characters long, and differs from "0x" + lowercase(B) only
\* where a letter a-f was raised to its uppercase form.
C4_DigitsPreserved ==
  Returned(call) =>
    LET plain == <<"0", "x">> \o Lower(ClaimBody(call.arg.chars))
    IN  /\ Lower(call.ret) = plain
        /\ Len(call.ret) = 42
        /\ call.ret[1] = "0" /\ call.ret[2] = "x"
        /\ \A k \in 1..42 :
              call.ret[k] # plain[k] =>
                plain[k] \in ClaimLetters /\ call.ret[k] = UpperChar(plain[k])

\* a result whose casing differs from the casing of the input, digits included
C4_Witness ==
  /\ Returned(call)
  /\ call.ret # <<"0", "x">> \o ClaimBody(call.arg.chars)
  /\ call.ret # <<"0", "x">> \o Lower(ClaimBody(call.arg.chars))
  /\ \E k \in 3..42 : call.ret[k] \in Range(Digits)

\* C5: for a valid body X, the calls on X, on lowercase(X) and on
\* uppercase(X) all succeed and return the same string.  Stated of every
\* returned call, with X the body of its input.
C5_CaseInsensitive ==
  Returned(call) =>
    LET X == ClaimBody(call.arg.chars)
        low == to_checksum_address(PyStr(Lower(X)))
        up == to_checksum_address(PyStr(Upper(X)))
    IN  /\ Returned(low) /\ low.ret = call.ret
        /\ Returned(up) /\ up.ret = call.ret

\* a returned call on a body of mixed case, given without prefix
C5_Witness ==
  /\ Returned(call)
  /\ ClaimValidBody(call.arg.chars)
  /\ call.arg.chars # Lower(call.arg.chars)
  /\ call.arg.chars # Upper(call.arg.chars)

\* C6 as claimed: with S the string given, the calls on "0x" + S and on S
\* both succeed with the same result when S is a valid body, and both fail
\* with ValueError when S is not.
C6_AsClaimed ==
  Finished(call) /\ call.arg.type = "str" =>
    LET S == call.arg.chars
        prefixed == to_checksum_address(PyStr(<<"0", "x">> \o S))
    IN  IF ClaimValidBody(S)
        THEN Returned(call) /\ Returned(prefixed) /\ prefixed.ret = call.ret
        ELSE RaisedWith(call, "ValueError") /\ RaisedWith(prefixed, "ValueError")

\* C6 as amended: when S is a valid body both calls succeed with the same
\* result; when S is not, the call on "0x" + S fails with ValueError, and the
\* call on S fails with ValueError unless S is itself "0x" followed by a
\* valid body, in which case it succeeds.
C6_PrefixOptional ==
  Finished(call) /\ call.arg.type = "str" =>
    LET S == call.arg.chars
        prefixed == to_checksum_address(PyStr(<<"0", "x">> \o S))
    IN  IF ClaimValidBody(S)
        THEN Returned(call) /\ Returned(prefixed) /\ prefixed.ret = call.ret
        ELSE /\ RaisedWith(prefixed, "ValueError")
             /\ IF ClaimBody(S) # S /\ ClaimValidBody(ClaimBody(S))
                THEN Returned(call)
                ELSE RaisedWith(call, "ValueError")

\* a returned call on a valid body given without prefix
C6_Witness ==
  /\ Returned(call)
  /\ ClaimValidBody(call.arg.chars)
  /\ call.ret # <<"0", "x">> \o call.arg.chars

\* C7: for every accepted input with result r, the calls on r and on
\* lowercase(r) both succeed and return exactly r.
C7_Idempotent ==
  Returned(call) =>
    LET r == call.ret
        again == to_checksum_address(PyStr(r))
        relowered == to_checksum_address(PyStr(Lower(r)))
    IN  /\ Returned(again) /\ again.ret = r
        /\ Returned(relowered) /\ relowered.ret = r

\* a result that is neither the input nor its lowercase form
C7_Witness ==
  /\ Returned(call)
  /\ call.ret # call.arg.chars
  /\ call.ret # Lower(call.ret)
  /\ call.arg.chars = Lower(call.arg.chars)

Count(s, x) == Cardinality({k \in 1..Len(s) : s[k] = x})

\* C8: a call that ends in TypeError or ValueError raised it at the
\* statement that detected it and never invoked the hash; a call that
\* returns invoked the hash exactly once, after the pattern test passed.
C8_NoHashBeforeValidation ==
  call.pc # "none" =>
    /\ Count(call.steps, "keccak") <= 1
    /\ Count(call.steps, "keccak") = 1 =>
          /\ ClaimAccepted(call.arg)
          /\ SubSeq(call.steps, 1, 6) =
                <<"isinstance", "startswith", "print", "fullmatch", "lower", "keccak">>
    /\ call.pc = "raised" =>
          /\ Count(call.steps, "keccak") = 0
          /\ call.address_hash = <<>>
          /\ call.exc = "TypeError" => call.steps = <<"isinstance">>
          /\ call.exc = "ValueError" =>
                call.steps = <<"isinstance", "startswith", "print", "fullmatch">>
          /\ call.exc \in {"TypeError", "ValueError"}
    /\ Returned(call) => Count(call.steps, "keccak") = 1

\* a call on a string of the wrong length ended in ValueError
C8_Witness ==
  /\ RaisedWith(call, "ValueError")
  /\ Len(call.arg.chars) = 7
  /\ call.steps = <<"isinstance", "startswith", "print", "fullmatch">>

\* C10: the prefix is stripped at most once and only when it is the
\* lowercase "0x": the address that is validated is the input less one
\* optional leading "0x", and an input of "0X" or of "0x0x" followed by a
\* valid body fails with ValueError.
C10_PrefixStrippedOnce ==
  call.arg.type = "str" /\ call.pc \notin {"none", "isinstance", "startswith"} =>
    LET S == call.arg.chars
    IN  /\ call.address = PyStr(ClaimBody(S))
        /\ Len(S) = 42 /\ S[1] = "0" /\ S[2] = "X" /\ ClaimValidBody(SubSeq(S, 3, 42)) =>
              /\ call.address = PyStr(S)
              /\ Finished(call) => RaisedWith(call, "ValueError")
        /\ Len(S) = 44 /\ SubSeq(S, 1, 4) = <<"0", "x", "0", "x">>
              /\ ClaimValidBody(SubSeq(S, 5, 44)) =>
              /\ call.address = PyStr(SubSeq(S, 3, 44))
              /\ Finished(call) => RaisedWith(call, "ValueError")

\* the call on "0x0x" and a valid body ended in ValueError
C10_Witness ==
  /\ RaisedWith(call, "ValueError")
  /\ Len(call.arg.chars) = 44
  /\ SubSeq(call.arg.chars, 1, 4) = <<"0", "x", "0", "x">>
  /\ ClaimValidBody(SubSeq(call.arg.chars, 5, 44))
  /\ Len(call.address.chars) = 42

\* the lines of the driver, one per address handled: results and errors
Reports(out) == SelectSeq(out, LAMBDA l : l.kind # "Address")

\* the line the driver owes an address
ClaimReport(v, l) ==
  IF ClaimAccepted(v)
  THEN l.kind = "result" /\ l.address = v /\ Len(l.text) = 42
  ELSE /\ l.kind = "Error"
       /\ l.msg = IF v.type = "str" THEN ValueErrorMessage ELSE TypeErrorMessage

C9_InOrder ==
  LET done == Reports(main.stdout)
  IN  /\ main.pc # "traceback"
      /\ main.pos <= Len(main.addresses)
      /\ Len(done) = IF main.pc \in {"for", "done"} THEN main.pos ELSE main.pos - 1
      /\ \A k \in 1..Len(done) : ClaimReport(main.addresses[k], done[k])
      /\ main.pc = "done" => Len(done) = Len(main.addresses)

\* C9: the driver handles every address of its list exactly once and in
\* list order: a failing address yields an error line and the loop goes on
\* to the next address; the driver always reaches the end of the list.
C9_EveryAddressHandled == []C9_InOrder /\ <>(main.pc = "done")

\* the driver is done with its own list: an error line for the first
\* address, result lines for the two after it
C9_Witness ==
  /\ main.pc = "done"
  /\ main.addresses = DemoAddresses
  /\ Len(Reports(main.stdout)) = 3
  /\ Reports(main.stdout)[1].kind = "Error"
  /\ Reports(main.stdout)[3].kind = "result"

====
